---- MODULE Spec2Model ----
(***************************************************************************)
(* Alert rules, the cooldown gate, the alert state machine and the alert   *)
(* history of the DataOps monitoring backend                               *)
(* (backend/app/models/alert.py, backend/app/api/alerts.py).               *)
(*                                                                         *)
(* Time is counted in seconds.  Optional values (a nullable column, a     *)
(* missing dict key) are None == <<>> or Some(x) == <<x>>.                 *)
(***************************************************************************)
EXTENDS Integers, Sequences, FiniteSets, TLC

VARIABLES
    now,        \* the clock read by datetime.utcnow()
    rules,      \* table alert_rules: rule id -> row
    alerts,     \* table alerts: sequence of rows, row i has id i
    history,    \* table alert_history: sequence of rows in insertion order
    response,   \* the last answer given to a caller
    call,       \* input and result of a direct call of a model method
    workers,    \* position of each concurrently running evaluation
    rule_id_seq,   \* the sequence behind alert_rules.id: the last id given out
    organizations, \* table organizations: organization id -> row
    pipelines      \* table pipelines: sequence of rows in insertion order

vars == <<now, rules, alerts, history, response, call, workers, rule_id_seq,
          organizations, pipelines>>

----------------------------------------------------------------------------
(* Bounds of the model *)

MaxMinutes == 1      \* the clock of the stored system runs to MaxMinutes minutes
MaxAlerts == 2       \* rows of table alerts
MaxHistory == 3      \* rows of table alert_history
MaxCallMinutes == 2  \* timestamps given to a direct call of should_trigger
MaxCallAlerts == 2   \* alerts of the rule in a direct call of should_trigger
MaxRules == 3        \* ids the sequence of alert_rules gives out
MaxPipelines == 54   \* rows in table pipelines
MaxCount == 2        \* counts, durations and thresholds in conditions and contexts

(* total_seconds() / 60 *)
SecondsPerMinute == 60

MaxNow == MaxMinutes * SecondsPerMinute
ClockSteps == {30}

----------------------------------------------------------------------------
(* Optional values *)

None == <<>>
Some(x) == <<x>>
Get(o) == o[1]

(* dict.get(key) and dict.get(key, default) on a dict modelled as a record *)
HasKey(d, k) == k \in DOMAIN d
DictGet(d, k) == IF HasKey(d, k) THEN Some(d[k]) ELSE None
DictGetDefault(d, k, default) == IF HasKey(d, k) THEN d[k] ELSE default

----------------------------------------------------------------------------
(* Enums *)

ACTIVE == "active"
ACKNOWLEDGED == "acknowledged"
RESOLVED == "resolved"
SUPPRESSED == "suppressed"
AlertStatus == {ACTIVE, ACKNOWLEDGED, RESOLVED, SUPPRESSED}

----------------------------------------------------------------------------
(* Users and organizations.  User 1 belongs to organization 1, user 2 to   *)
(* organization 2; identity 3 is a token whose user row is gone.           *)

Users == {1, 2}
Identities == Users \cup {3}
Organizations == {1, 2}
UserOrganization(u) == u

get_current_user_org(identity) ==
    IF identity \in Users
    THEN [user |-> Some(identity), org |-> Some(UserOrganization(identity))]
    ELSE [user |-> None, org |-> None]

----------------------------------------------------------------------------
(* AlertRule: the condition evaluators.  conditions and context_data are   *)
(* JSON objects, modelled as records whose DOMAIN is the set of keys       *)
(* present.                                                                *)

(* Variant: the counts must exceed their thresholds *)
evaluate_pipeline_conditions_StrictCount(conditions, context_data) ==
    IF HasKey(conditions, "status")
       /\ DictGet(context_data, "status") # Some(conditions.status)
    THEN FALSE
    ELSE IF HasKey(conditions, "failure_count")
            /\ DictGetDefault(context_data, "failure_count", 0) <= conditions.failure_count
    THEN FALSE
    ELSE IF HasKey(conditions, "duration_threshold")
            /\ DictGetDefault(context_data, "duration_seconds", 0) <= conditions.duration_threshold
    THEN FALSE
    ELSE TRUE

evaluate_pipeline_conditions(conditions, context_data) ==
    IF HasKey(conditions, "status")
       /\ DictGet(context_data, "status") # Some(conditions.status)
    THEN FALSE
    ELSE IF HasKey(conditions, "failure_count")
            /\ DictGetDefault(context_data, "failure_count", 0) < conditions.failure_count
    THEN FALSE
    ELSE IF HasKey(conditions, "duration_threshold")
            /\ DictGetDefault(context_data, "duration_seconds", 0) < conditions.duration_threshold
    THEN FALSE
    ELSE TRUE

(* Variant: the comparison with '>' is not strict *)
evaluate_health_check_conditions_NonStrict(conditions, context_data) ==
    IF HasKey(conditions, "status")
       /\ DictGet(context_data, "status") # Some(conditions.status)
    THEN FALSE
    ELSE IF HasKey(conditions, "metric_threshold")
    THEN LET metric_value == DictGetDefault(context_data, "metric_value", 0)
             threshold == conditions.metric_threshold
             operator == DictGetDefault(conditions, "operator", ">")
         IN  IF operator = ">" /\ metric_value < threshold THEN FALSE
             ELSE IF operator = "<" /\ metric_value >= threshold THEN FALSE
             ELSE IF operator = "==" /\ metric_value # threshold THEN FALSE
             ELSE TRUE
    ELSE TRUE

evaluate_health_check_conditions(conditions, context_data) ==
    IF HasKey(conditions, "status")
       /\ DictGet(context_data, "status") # Some(conditions.status)
    THEN FALSE
    ELSE IF HasKey(conditions, "metric_threshold")
    THEN LET metric_value == DictGetDefault(context_data, "metric_value", 0)
             threshold == conditions.metric_threshold
             operator == DictGetDefault(conditions, "operator", ">")
         IN  IF operator = ">" /\ metric_value <= threshold THEN FALSE
             ELSE IF operator = "<" /\ metric_value >= threshold THEN FALSE
             ELSE IF operator = "==" /\ metric_value # threshold THEN FALSE
             ELSE TRUE
    ELSE TRUE

evaluate_custom_conditions(conditions, context_data) == TRUE

(* Variant: the alert stored last, self.alerts[-1] *)
get_last_alert_LastStored(rule_alerts) ==
    IF rule_alerts = <<>> THEN None ELSE Some(rule_alerts[Len(rule_alerts)])

(* max(self.alerts, key=lambda x: x.created_at): the first element of the  *)
(* collection whose created_at is maximal; None for an empty collection.   *)
get_last_alert(rule_alerts) ==
    IF rule_alerts = <<>>
    THEN None
    ELSE LET top == {i \in 1..Len(rule_alerts) :
                        \A j \in 1..Len(rule_alerts) :
                            rule_alerts[j].created_at <= rule_alerts[i].created_at}
             first == CHOOSE i \in top : \A j \in top : i <= j
         IN  Some(rule_alerts[first])

(* `if self.cooldown_minutes:` is false for None and for 0 *)
Truthy(opt_int) == opt_int # None /\ Get(opt_int) # 0

(* cooldown_minutes = db.Column(db.Integer, default=60) *)
DefaultCooldownMinutes == 60

(* Variant: the boundary is exclusive, time_since_last <= cooldown_minutes *)
in_cooldown_BoundaryExclusive(rule, rule_alerts, utcnow) ==
    /\ Truthy(rule.cooldown_minutes)
    /\ LET last_alert == get_last_alert(rule_alerts)
       IN  /\ last_alert # None
           /\ utcnow - Get(last_alert).created_at
                <= Get(rule.cooldown_minutes) * SecondsPerMinute

(* Variant: a rule without cooldown falls back to the column default,      *)
(* (self.cooldown_minutes or 60)                                           *)
in_cooldown_DefaultWhenUnset(rule, rule_alerts, utcnow) ==
    LET minutes == IF Truthy(rule.cooldown_minutes)
                   THEN Get(rule.cooldown_minutes) ELSE DefaultCooldownMinutes
        last_alert == get_last_alert(rule_alerts)
    IN  /\ last_alert # None
        /\ utcnow - Get(last_alert).created_at < minutes * SecondsPerMinute

(* Variant: the seconds are not divided by 60 *)
in_cooldown_SecondsAsMinutes(rule, rule_alerts, utcnow) ==
    /\ Truthy(rule.cooldown_minutes)
    /\ LET last_alert == get_last_alert(rule_alerts)
       IN  /\ last_alert # None
           /\ utcnow - Get(last_alert).created_at < Get(rule.cooldown_minutes)

(* The cooldown part of should_trigger: TRUE when it returns False there.  *)
(* time_since_last = seconds / 60 is compared with cooldown_minutes; the   *)
(* division is exact here, both sides multiplied by 60.                    *)
in_cooldown(rule, rule_alerts, utcnow) ==
    /\ Truthy(rule.cooldown_minutes)
    /\ LET last_alert == get_last_alert(rule_alerts)
       IN  /\ last_alert # None
           /\ utcnow - Get(last_alert).created_at
                < Get(rule.cooldown_minutes) * SecondsPerMinute

(* Variant: a rule type without an evaluator passes *)
should_trigger_UnknownTypePasses(rule, rule_alerts, utcnow, context_data) ==
    IF ~rule.is_active THEN FALSE
    ELSE IF in_cooldown(rule, rule_alerts, utcnow) THEN FALSE
    ELSE IF rule.rule_type = "pipeline_failure"
         THEN evaluate_pipeline_conditions(rule.conditions, context_data)
    ELSE IF rule.rule_type = "health_check"
         THEN evaluate_health_check_conditions(rule.conditions, context_data)
    ELSE IF rule.rule_type = "custom"
         THEN evaluate_custom_conditions(rule.conditions, context_data)
    ELSE TRUE

(* Variant: the cooldown gate is left out *)
should_trigger_NoCooldownGate(rule, rule_alerts, utcnow, context_data) ==
    IF ~rule.is_active THEN FALSE
    ELSE IF rule.rule_type = "pipeline_failure"
         THEN evaluate_pipeline_conditions(rule.conditions, context_data)
    ELSE IF rule.rule_type = "health_check"
         THEN evaluate_health_check_conditions(rule.conditions, context_data)
    ELSE IF rule.rule_type = "custom"
         THEN evaluate_custom_conditions(rule.conditions, context_data)
    ELSE FALSE

should_trigger(rule, rule_alerts, utcnow, context_data) ==
    IF ~rule.is_active THEN FALSE
    ELSE IF in_cooldown(rule, rule_alerts, utcnow) THEN FALSE
    ELSE IF rule.rule_type = "pipeline_failure"
         THEN evaluate_pipeline_conditions(rule.conditions, context_data)
    ELSE IF rule.rule_type = "health_check"
         THEN evaluate_health_check_conditions(rule.conditions, context_data)
    ELSE IF rule.rule_type = "custom"
         THEN evaluate_custom_conditions(rule.conditions, context_data)
    ELSE FALSE

----------------------------------------------------------------------------
(* Alert: the model methods *)

is_active(alert) == alert.status = ACTIVE
is_acknowledged(alert) == alert.status = ACKNOWLEDGED
is_resolved(alert) == alert.status = RESOLVED

(* Variant: acknowledging a resolved alert reopens it *)
acknowledge_Reopens(alert, user_id, utcnow) ==
    [alert EXCEPT !.status = IF alert.status = RESOLVED THEN ACTIVE ELSE ACKNOWLEDGED,
                  !.acknowledged_at = Some(utcnow),
                  !.acknowledged_by = Some(user_id),
                  !.updated_at = utcnow]

(* Variant: the actor is not recorded *)
acknowledge_NoActor(alert, user_id, utcnow) ==
    [alert EXCEPT !.status = ACKNOWLEDGED,
                  !.acknowledged_at = Some(utcnow),
                  !.updated_at = utcnow]

acknowledge(alert, user_id, utcnow) ==
    [alert EXCEPT !.status = ACKNOWLEDGED,
                  !.acknowledged_at = Some(utcnow),
                  !.acknowledged_by = Some(user_id),
                  !.updated_at = utcnow]

(* Variant: resolving clears the acknowledgement *)
resolve_ClearsAcknowledgement(alert, user_id, utcnow) ==
    [alert EXCEPT !.status = RESOLVED,
                  !.acknowledged_at = None,
                  !.acknowledged_by = None,
                  !.resolved_at = Some(utcnow),
                  !.resolved_by = Some(user_id),
                  !.updated_at = utcnow]

(* Variant: an alert resolved without having been acknowledged is         *)
(* suppressed                                                              *)
resolve_SuppressesUnacknowledged(alert, user_id, utcnow) ==
    [alert EXCEPT !.status = IF alert.status = ACTIVE THEN SUPPRESSED ELSE RESOLVED,
                  !.resolved_at = Some(utcnow),
                  !.resolved_by = Some(user_id),
                  !.updated_at = utcnow]

resolve(alert, user_id, utcnow) ==
    [alert EXCEPT !.status = RESOLVED,
                  !.resolved_at = Some(utcnow),
                  !.resolved_by = Some(user_id),
                  !.updated_at = utcnow]

(* get_duration_minutes: total_seconds() / 60, kept as the fraction of the *)
(* seconds over SecondsPerMinute.                                          *)

(* Variant: a resolved alert keeps counting to the current time *)
get_duration_minutes_ResolvedKeepsCounting(alert, utcnow) ==
    IF is_acknowledged(alert) /\ alert.acknowledged_at # None
    THEN [num |-> Get(alert.acknowledged_at) - alert.created_at, den |-> SecondsPerMinute]
    ELSE [num |-> utcnow - alert.created_at, den |-> SecondsPerMinute]

(* Variant: the operands of the last subtraction are swapped *)
get_duration_minutes_OperandsSwapped(alert, utcnow) ==
    IF is_resolved(alert) /\ alert.resolved_at # None
    THEN [num |-> Get(alert.resolved_at) - alert.created_at, den |-> SecondsPerMinute]
    ELSE IF is_acknowledged(alert) /\ alert.acknowledged_at # None
    THEN [num |-> Get(alert.acknowledged_at) - alert.created_at, den |-> SecondsPerMinute]
    ELSE [num |-> alert.created_at - utcnow, den |-> SecondsPerMinute]

get_duration_minutes(alert, utcnow) ==
    IF is_resolved(alert) /\ alert.resolved_at # None
    THEN [num |-> Get(alert.resolved_at) - alert.created_at, den |-> SecondsPerMinute]
    ELSE IF is_acknowledged(alert) /\ alert.acknowledged_at # None
    THEN [num |-> Get(alert.acknowledged_at) - alert.created_at, den |-> SecondsPerMinute]
    ELSE [num |-> utcnow - alert.created_at, den |-> SecondsPerMinute]

----------------------------------------------------------------------------
(* The stored state.  Of a rule row the model keeps the columns the        *)
(* evaluation and the lookups read; of an alert row the columns of the     *)
(* state machine.                                                          *)

RuleIds == {1, 2}
AlertIds == 1..MaxAlerts

Contexts == {[status |-> "failed"], [status |-> "success"]}

InitialRules ==
    [r \in RuleIds |->
        [id |-> r,
         name |-> "failures",
         organization_id |-> 1,
         created_by |-> 1,
         is_active |-> TRUE,
         cooldown_minutes |-> Some(1),
         rule_type |-> "pipeline_failure",
         conditions |-> [status |-> "failed"],
         severity |-> "warning"]]

(* auth.py registers every organization on the starter tier *)
InitialOrganizations ==
    [o \in Organizations |-> [id |-> o, subscription_tier |-> "starter"]]

NoResponse == [op |-> "none", code |-> 0]
NoCall == [fn |-> "none"]

(* The evaluations that can run at the same time, each in its own request *)
Workers == {1, 2}
Idle == [pc |-> "idle"]
NoWorkers == [w \in Workers |-> Idle]

Init ==
    /\ now = 0
    /\ rules = InitialRules
    /\ alerts = <<>>
    /\ history = <<>>
    /\ response = NoResponse
    /\ call = NoCall
    /\ workers = NoWorkers
    /\ rule_id_seq = Cardinality(RuleIds)
    /\ organizations = InitialOrganizations
    /\ pipelines = <<>>

(* rule.alerts: the alerts whose alert_rule_id is the rule's id *)
AlertsOfRule(rule_id) ==
    SelectSeq(alerts, LAMBDA a : a.alert_rule_id = rule_id)

(* Model.query.filter_by(id=..., organization_id=org.id).first() *)
QueryAlert(alert_id, org_id) ==
    IF alert_id \in 1..Len(alerts) /\ alerts[alert_id].organization_id = org_id
    THEN Some(alerts[alert_id])
    ELSE None

QueryRule(rule_id, org_id) ==
    IF rule_id \in DOMAIN rules /\ rules[rule_id].organization_id = org_id
    THEN Some(rules[rule_id])
    ELSE None

Respond(op, code) ==
    response' = [op |-> op, code |-> code]

HistoryEntry(alert_id, action, description, created_by) ==
    [alert_id |-> alert_id,
     action |-> action,
     description |-> description,
     created_by |-> created_by]

----------------------------------------------------------------------------
(* The clock advances *)

Tick(d) ==
    /\ now + d <= MaxNow
    /\ now' = now + d
    /\ UNCHANGED <<rules, alerts, history, response, call, workers, rule_id_seq, organizations, pipelines>>

----------------------------------------------------------------------------
(* evaluate_and_maybe_fire(rule, context, now): the composed operation of  *)
(* the evaluation engine: should_trigger, then the creation of the Alert   *)
(* in status ACTIVE and of its history entry.                              *)

NewAlert(rule, context) ==
    [id |-> Len(alerts) + 1,
     alert_rule_id |-> rule.id,
     organization_id |-> rule.organization_id,
     created_by |-> rule.created_by,
     severity |-> rule.severity,
     status |-> ACTIVE,
     context_data |-> context,
     created_at |-> now,
     updated_at |-> now,
     acknowledged_at |-> None,
     resolved_at |-> None,
     acknowledged_by |-> None,
     resolved_by |-> None]

evaluate_and_maybe_fire(rule_id, context) ==
    /\ rule_id \in DOMAIN rules
    /\ LET rule == rules[rule_id]
       IN  IF should_trigger(rule, AlertsOfRule(rule_id), now, context)
           THEN /\ Len(alerts) < MaxAlerts
                /\ Len(history) < MaxHistory
                /\ alerts' = Append(alerts, NewAlert(rule, context))
                /\ history' = Append(history,
                        HistoryEntry(Len(alerts) + 1, "created", <<"Alert created">>, None))
           ELSE UNCHANGED <<alerts, history>>
    /\ UNCHANGED <<now, rules, response, workers, rule_id_seq, organizations, pipelines>>

----------------------------------------------------------------------------
(* Variant: the history entry is written before the state check *)

acknowledge_alert_RecordsBeforeCheck(identity, alert_id, commit_ok) ==
    LET cu == get_current_user_org(identity)
        alert == IF cu.org = None THEN None ELSE QueryAlert(alert_id, Get(cu.org))
    IN  /\ IF cu.org = None
           THEN /\ Respond("acknowledge", 404)
                /\ UNCHANGED <<alerts, history>>
           ELSE IF alert = None
           THEN /\ Respond("acknowledge", 404)
                /\ UNCHANGED <<alerts, history>>
           ELSE IF is_acknowledged(Get(alert))
           THEN /\ Len(history) < MaxHistory
                /\ history' = Append(history,
                        HistoryEntry(alert_id, "acknowledged",
                                     <<"Alert acknowledged by", Get(cu.user)>>, cu.user))
                /\ Respond("acknowledge", 400)
                /\ UNCHANGED alerts
           ELSE IF commit_ok
           THEN /\ Len(history) < MaxHistory
                /\ alerts' = [alerts EXCEPT
                        ![alert_id] = acknowledge(Get(alert), Get(cu.user), now)]
                /\ history' = Append(history,
                        HistoryEntry(alert_id, "acknowledged",
                                     <<"Alert acknowledged by", Get(cu.user)>>, cu.user))
                /\ Respond("acknowledge", 200)
           ELSE \* the commit raises: rollback, 500
                /\ Respond("acknowledge", 500)
                /\ UNCHANGED <<alerts, history>>
        /\ UNCHANGED <<now, rules, call, workers, rule_id_seq, organizations, pipelines>>

(* POST /<alert_id>/acknowledge *)

(* Variant: the alert is committed before the history entry, and a failure *)
(* of the second commit leaves the alert acknowledged                      *)
acknowledge_alert_PartialCommit(identity, alert_id, commit_ok) ==
    LET cu == get_current_user_org(identity)
        alert == IF cu.org = None THEN None ELSE QueryAlert(alert_id, Get(cu.org))
    IN  /\ IF cu.org = None
           THEN /\ Respond("acknowledge", 404)
                /\ UNCHANGED <<alerts, history>>
           ELSE IF alert = None
           THEN /\ Respond("acknowledge", 404)
                /\ UNCHANGED <<alerts, history>>
           ELSE IF is_acknowledged(Get(alert))
           THEN /\ Respond("acknowledge", 400)
                /\ UNCHANGED <<alerts, history>>
           ELSE IF commit_ok
           THEN /\ Len(history) < MaxHistory
                /\ alerts' = [alerts EXCEPT
                        ![alert_id] = acknowledge(Get(alert), Get(cu.user), now)]
                /\ history' = Append(history,
                        HistoryEntry(alert_id, "acknowledged",
                                     <<"Alert acknowledged by", Get(cu.user)>>, cu.user))
                /\ Respond("acknowledge", 200)
           ELSE /\ alerts' = [alerts EXCEPT
                        ![alert_id] = acknowledge(Get(alert), Get(cu.user), now)]
                /\ Respond("acknowledge", 500)
                /\ UNCHANGED history
        /\ UNCHANGED <<now, rules, call, workers, rule_id_seq, organizations, pipelines>>

acknowledge_alert(identity, alert_id, commit_ok) ==
    LET cu == get_current_user_org(identity)
        alert == IF cu.org = None THEN None ELSE QueryAlert(alert_id, Get(cu.org))
    IN  /\ IF cu.org = None
           THEN /\ Respond("acknowledge", 404)
                /\ UNCHANGED <<alerts, history>>
           ELSE IF alert = None
           THEN /\ Respond("acknowledge", 404)
                /\ UNCHANGED <<alerts, history>>
           ELSE IF is_acknowledged(Get(alert))
           THEN /\ Respond("acknowledge", 400)
                /\ UNCHANGED <<alerts, history>>
           ELSE IF commit_ok
           THEN /\ Len(history) < MaxHistory
                /\ alerts' = [alerts EXCEPT
                        ![alert_id] = acknowledge(Get(alert), Get(cu.user), now)]
                /\ history' = Append(history,
                        HistoryEntry(alert_id, "acknowledged",
                                     <<"Alert acknowledged by", Get(cu.user)>>, cu.user))
                /\ Respond("acknowledge", 200)
           ELSE \* the commit raises: rollback, 500
                /\ Respond("acknowledge", 500)
                /\ UNCHANGED <<alerts, history>>
        /\ UNCHANGED <<now, rules, call, workers, rule_id_seq, organizations, pipelines>>

(* Variant: the handler does not look at the status *)

resolve_alert_NoStateCheck(identity, alert_id, commit_ok) ==
    LET cu == get_current_user_org(identity)
        alert == IF cu.org = None THEN None ELSE QueryAlert(alert_id, Get(cu.org))
    IN  /\ IF cu.org = None
           THEN /\ Respond("resolve", 404)
                /\ UNCHANGED <<alerts, history>>
           ELSE IF alert = None
           THEN /\ Respond("resolve", 404)
                /\ UNCHANGED <<alerts, history>>
           ELSE IF commit_ok
           THEN /\ Len(history) < MaxHistory
                /\ alerts' = [alerts EXCEPT
                        ![alert_id] = resolve(Get(alert), Get(cu.user), now)]
                /\ history' = Append(history,
                        HistoryEntry(alert_id, "resolved",
                                     <<"Alert resolved by", Get(cu.user)>>, cu.user))
                /\ Respond("resolve", 200)
           ELSE \* the commit raises: rollback, 500
                /\ Respond("resolve", 500)
                /\ UNCHANGED <<alerts, history>>
        /\ UNCHANGED <<now, rules, call, workers, rule_id_seq, organizations, pipelines>>

(* POST /<alert_id>/resolve *)

(* Variant: the alert's 'acknowledged' entry is rewritten into the          *)
(* 'resolved' entry                                                        *)
resolve_alert_RewritesHistory(identity, alert_id, commit_ok) ==
    LET cu == get_current_user_org(identity)
        alert == IF cu.org = None THEN None ELSE QueryAlert(alert_id, Get(cu.org))
        entry == HistoryEntry(alert_id, "resolved",
                              <<"Alert resolved by", Get(cu.user)>>, cu.user)
        acknowledged(h) == h.alert_id = alert_id /\ h.action = "acknowledged"
    IN  /\ IF cu.org = None
           THEN /\ Respond("resolve", 404)
                /\ UNCHANGED <<alerts, history>>
           ELSE IF alert = None
           THEN /\ Respond("resolve", 404)
                /\ UNCHANGED <<alerts, history>>
           ELSE IF is_resolved(Get(alert))
           THEN /\ Respond("resolve", 400)
                /\ UNCHANGED <<alerts, history>>
           ELSE IF commit_ok
           THEN /\ Len(history) < MaxHistory
                /\ alerts' = [alerts EXCEPT
                        ![alert_id] = resolve(Get(alert), Get(cu.user), now)]
                /\ history' =
                        IF \E h \in 1..Len(history) : acknowledged(history[h])
                        THEN [h \in 1..Len(history) |->
                                IF acknowledged(history[h]) THEN entry ELSE history[h]]
                        ELSE Append(history, entry)
                /\ Respond("resolve", 200)
           ELSE /\ Respond("resolve", 500)
                /\ UNCHANGED <<alerts, history>>
        /\ UNCHANGED <<now, rules, call, workers, rule_id_seq, organizations, pipelines>>

resolve_alert(identity, alert_id, commit_ok) ==
    LET cu == get_current_user_org(identity)
        alert == IF cu.org = None THEN None ELSE QueryAlert(alert_id, Get(cu.org))
    IN  /\ IF cu.org = None
           THEN /\ Respond("resolve", 404)
                /\ UNCHANGED <<alerts, history>>
           ELSE IF alert = None
           THEN /\ Respond("resolve", 404)
                /\ UNCHANGED <<alerts, history>>
           ELSE IF is_resolved(Get(alert))
           THEN /\ Respond("resolve", 400)
                /\ UNCHANGED <<alerts, history>>
           ELSE IF commit_ok
           THEN /\ Len(history) < MaxHistory
                /\ alerts' = [alerts EXCEPT
                        ![alert_id] = resolve(Get(alert), Get(cu.user), now)]
                /\ history' = Append(history,
                        HistoryEntry(alert_id, "resolved",
                                     <<"Alert resolved by", Get(cu.user)>>, cu.user))
                /\ Respond("resolve", 200)
           ELSE \* the commit raises: rollback, 500
                /\ Respond("resolve", 500)
                /\ UNCHANGED <<alerts, history>>
        /\ UNCHANGED <<now, rules, call, workers, rule_id_seq, organizations, pipelines>>

----------------------------------------------------------------------------
(* PUT /rules/<rule_id>.  name, rule_type and severity are applied when    *)
(* data.get(key) is truthy, the other keys when it is not None.  A         *)
(* severity that AlertSeverity does not know answers 400; the assignments  *)
(* made before it were never committed and go with the request's session.  *)

(* class AlertSeverity(Enum) *)
AlertSeverity == {"info", "warning", "critical", "emergency"}

(* bool(x) of an optional string and of an optional dict *)
TruthyStr(opt_str) == opt_str # None /\ Get(opt_str) # ""
TruthyDict(opt_dict) == opt_dict # None /\ DOMAIN Get(opt_dict) # {}

UpdateBodies ==
    {[cooldown_minutes |-> 0], [cooldown_minutes |-> 1],
     [is_active |-> FALSE], [is_active |-> TRUE]}

ApplyUpdate(rule, data) ==
    [rule EXCEPT
        !.name =
            IF TruthyStr(DictGet(data, "name")) THEN data.name ELSE @,
        !.rule_type =
            IF TruthyStr(DictGet(data, "rule_type")) THEN data.rule_type ELSE @,
        !.conditions =
            IF DictGet(data, "conditions") # None THEN data.conditions ELSE @,
        !.severity =
            IF TruthyStr(DictGet(data, "severity")) THEN data.severity ELSE @,
        !.cooldown_minutes =
            IF DictGet(data, "cooldown_minutes") # None
            THEN DictGet(data, "cooldown_minutes") ELSE @,
        !.is_active =
            IF DictGet(data, "is_active") # None
            THEN data.is_active ELSE @]

update_alert_rule(identity, rule_id, data, commit_ok) ==
    LET cu == get_current_user_org(identity)
        rule == IF cu.org = None THEN None ELSE QueryRule(rule_id, Get(cu.org))
    IN  /\ IF cu.org = None
           THEN /\ Respond("update_rule", 404)
                /\ UNCHANGED rules
           ELSE IF rule = None
           THEN /\ Respond("update_rule", 404)
                /\ UNCHANGED rules
           ELSE IF /\ TruthyStr(DictGet(data, "severity"))
                   /\ data.severity \notin AlertSeverity
           THEN /\ Respond("update_rule", 400)
                /\ UNCHANGED rules
           ELSE IF commit_ok
           THEN /\ rules' = [rules EXCEPT ![rule_id] = ApplyUpdate(Get(rule), data)]
                /\ Respond("update_rule", 200)
           ELSE /\ Respond("update_rule", 500)
                /\ UNCHANGED rules
        /\ UNCHANGED <<now, alerts, history, call, workers, rule_id_seq, organizations, pipelines>>

----------------------------------------------------------------------------
(* POST /rules.  A required field that is missing or falsy answers 400, a  *)
(* severity AlertSeverity does not know answers 400; rule_type and the     *)
(* content of conditions are stored as given.                              *)

(* data.get('cooldown_minutes', 60) *)
CreateDefaultCooldownMinutes == 60

NewRule(rule_id, data, user_id, org_id) ==
    [id |-> rule_id,
     name |-> data.name,
     organization_id |-> org_id,
     created_by |-> user_id,
     is_active |-> DictGetDefault(data, "is_active", TRUE),
     cooldown_minutes |->
        Some(DictGetDefault(data, "cooldown_minutes", CreateDefaultCooldownMinutes)),
     rule_type |-> data.rule_type,
     conditions |-> data.conditions,
     severity |-> DictGetDefault(data, "severity", "warning")]

(* Variant: only name is checked; a missing rule_type or conditions is the *)
(* KeyError of the constructor call, caught as a failed creation           *)
create_alert_rule_OnlyNameRequired(identity, data, commit_ok) ==
    LET cu == get_current_user_org(identity)
    IN  /\ IF cu.org = None
           THEN /\ Respond("create_rule", 404)
                /\ UNCHANGED <<rules, rule_id_seq>>
           ELSE IF ~TruthyStr(DictGet(data, "name"))
           THEN /\ Respond("create_rule", 400)
                /\ UNCHANGED <<rules, rule_id_seq>>
           ELSE IF DictGetDefault(data, "severity", "warning") \notin AlertSeverity
           THEN /\ Respond("create_rule", 400)
                /\ UNCHANGED <<rules, rule_id_seq>>
           ELSE IF ~HasKey(data, "rule_type") \/ ~HasKey(data, "conditions")
           THEN /\ Respond("create_rule", 500)
                /\ UNCHANGED <<rules, rule_id_seq>>
           ELSE IF commit_ok
           THEN /\ rule_id_seq < MaxRules
                /\ rule_id_seq' = rule_id_seq + 1
                /\ rules' = [r \in DOMAIN rules \cup {rule_id_seq + 1} |->
                                IF r \in DOMAIN rules THEN rules[r]
                                ELSE NewRule(r, data, Get(cu.user), Get(cu.org))]
                /\ Respond("create_rule", 201)
           ELSE /\ Respond("create_rule", 500)
                /\ UNCHANGED <<rules, rule_id_seq>>
        /\ UNCHANGED <<now, alerts, history, call, workers, organizations, pipelines>>

create_alert_rule(identity, data, commit_ok) ==
    LET cu == get_current_user_org(identity)
    IN  /\ IF cu.org = None
           THEN /\ Respond("create_rule", 404)
                /\ UNCHANGED <<rules, rule_id_seq>>
           ELSE IF \/ ~TruthyStr(DictGet(data, "name"))
                   \/ ~TruthyStr(DictGet(data, "rule_type"))
                   \/ ~TruthyDict(DictGet(data, "conditions"))
           THEN /\ Respond("create_rule", 400)
                /\ UNCHANGED <<rules, rule_id_seq>>
           ELSE IF DictGetDefault(data, "severity", "warning") \notin AlertSeverity
           THEN /\ Respond("create_rule", 400)
                /\ UNCHANGED <<rules, rule_id_seq>>
           ELSE IF commit_ok
           THEN /\ rule_id_seq < MaxRules
                /\ rule_id_seq' = rule_id_seq + 1
                /\ rules' = [r \in DOMAIN rules \cup {rule_id_seq + 1} |->
                                IF r \in DOMAIN rules THEN rules[r]
                                ELSE NewRule(r, data, Get(cu.user), Get(cu.org))]
                /\ Respond("create_rule", 201)
           ELSE /\ Respond("create_rule", 500)
                /\ UNCHANGED <<rules, rule_id_seq>>
        /\ UNCHANGED <<now, alerts, history, call, workers, organizations, pipelines>>

----------------------------------------------------------------------------
(* DELETE /rules/<rule_id>.  The relationship AlertRule.alerts has no       *)
(* cascade: deleting a rule that has alerts makes the flush set their      *)
(* alert_rule_id to NULL, the NOT NULL column refuses it, and the handler  *)
(* rolls back and answers 500.                                             *)

(* Variant: the rule goes, its alerts stay *)
delete_alert_rule_LeavesAlerts(identity, rule_id, commit_ok) ==
    LET cu == get_current_user_org(identity)
        rule == IF cu.org = None THEN None ELSE QueryRule(rule_id, Get(cu.org))
    IN  /\ IF cu.org = None
           THEN /\ Respond("delete_rule", 404)
                /\ UNCHANGED rules
           ELSE IF rule = None
           THEN /\ Respond("delete_rule", 404)
                /\ UNCHANGED rules
           ELSE IF commit_ok
           THEN /\ rules' = [r \in DOMAIN rules \ {rule_id} |-> rules[r]]
                /\ Respond("delete_rule", 200)
           ELSE /\ Respond("delete_rule", 500)
                /\ UNCHANGED rules
        /\ UNCHANGED <<now, alerts, history, call, workers, rule_id_seq, organizations, pipelines>>

delete_alert_rule(identity, rule_id, commit_ok) ==
    LET cu == get_current_user_org(identity)
        rule == IF cu.org = None THEN None ELSE QueryRule(rule_id, Get(cu.org))
    IN  /\ IF cu.org = None
           THEN /\ Respond("delete_rule", 404)
                /\ UNCHANGED rules
           ELSE IF rule = None
           THEN /\ Respond("delete_rule", 404)
                /\ UNCHANGED rules
           ELSE IF AlertsOfRule(rule_id) # <<>>
           THEN /\ Respond("delete_rule", 500)
                /\ UNCHANGED rules
           ELSE IF commit_ok
           THEN /\ rules' = [r \in DOMAIN rules \ {rule_id} |-> rules[r]]
                /\ Respond("delete_rule", 200)
           ELSE /\ Respond("delete_rule", 500)
                /\ UNCHANGED rules
        /\ UNCHANGED <<now, alerts, history, call, workers, rule_id_seq, organizations, pipelines>>

----------------------------------------------------------------------------
(* GET /rules/<rule_id>, GET /<alert_id>, GET /<alert_id>/history *)

get_alert_rule(identity, rule_id) ==
    LET cu == get_current_user_org(identity)
    IN  /\ IF cu.org = None
           THEN Respond("get_rule", 404)
           ELSE IF QueryRule(rule_id, Get(cu.org)) = None
           THEN Respond("get_rule", 404)
           ELSE Respond("get_rule", 200)
        /\ UNCHANGED <<now, rules, alerts, history, call, workers, rule_id_seq, organizations, pipelines>>

get_alert(identity, alert_id) ==
    LET cu == get_current_user_org(identity)
    IN  /\ IF cu.org = None
           THEN Respond("get_alert", 404)
           ELSE IF QueryAlert(alert_id, Get(cu.org)) = None
           THEN Respond("get_alert", 404)
           ELSE Respond("get_alert", 200)
        /\ UNCHANGED <<now, rules, alerts, history, call, workers, rule_id_seq, organizations, pipelines>>

(* Variant: the history is looked up by alert_id alone *)
get_alert_history_NoOrganizationFilter(identity, alert_id) ==
    LET cu == get_current_user_org(identity)
    IN  /\ IF cu.org = None
           THEN Respond("get_history", 404)
           ELSE IF alert_id \notin 1..Len(alerts)
           THEN Respond("get_history", 404)
           ELSE Respond("get_history", 200)
        /\ UNCHANGED <<now, rules, alerts, history, call, workers, rule_id_seq, organizations, pipelines>>

get_alert_history(identity, alert_id) ==
    LET cu == get_current_user_org(identity)
    IN  /\ IF cu.org = None
           THEN Respond("get_history", 404)
           ELSE IF QueryAlert(alert_id, Get(cu.org)) = None
           THEN Respond("get_history", 404)
           ELSE Respond("get_history", 200)
        /\ UNCHANGED <<now, rules, alerts, history, call, workers, rule_id_seq, organizations, pipelines>>

----------------------------------------------------------------------------
(* The alert state machine: the clock, the evaluations that create alerts  *)
(* and the acknowledge and resolve requests.                               *)

Next ==
    \/ \E d \in ClockSteps : Tick(d)
    \/ \E r \in RuleIds, c \in Contexts :
            evaluate_and_maybe_fire(r, c) /\ UNCHANGED call
    \/ \E i \in Identities, a \in AlertIds, ok \in BOOLEAN : acknowledge_alert(i, a, ok)
    \/ \E i \in Identities, a \in AlertIds, ok \in BOOLEAN : resolve_alert(i, a, ok)

Spec == Init /\ [][Next]_vars

(* Rule management and firing: the clock, the rule updates and the         *)
(* evaluations, each of which leaves its arguments and the alert it        *)
(* returned in `call`.  Acknowledge and resolve write the status, actor    *)
(* and timestamp columns of an alert, none of which an evaluation reads.   *)

NextRules ==
    \/ \E d \in ClockSteps : Tick(d)
    \/ \E r \in RuleIds, c \in Contexts :
            /\ evaluate_and_maybe_fire(r, c)
            /\ call' = [fn |-> "evaluate_and_maybe_fire", rule_id |-> r,
                        context_data |-> c,
                        result |-> IF Len(alerts') > Len(alerts)
                                   THEN Some(Len(alerts')) ELSE None]
    \/ \E i \in Identities, r \in RuleIds, data \in UpdateBodies, ok \in BOOLEAN :
            update_alert_rule(i, r, data, ok)

SpecRules == Init /\ [][NextRules]_vars

----------------------------------------------------------------------------
(* Two tenants.  Every rule and alert belongs to organization 1; user 1 is *)
(* of organization 1 and user 2 of organization 2, and both send every     *)
(* request that looks up one alert or one rule.                            *)

TenantUpdateBodies == {[is_active |-> FALSE], [name |-> "renamed"]}

NextTenant ==
    \/ \E r \in RuleIds, c \in Contexts :
            evaluate_and_maybe_fire(r, c) /\ UNCHANGED call
    \/ \E i \in Users, a \in AlertIds : get_alert(i, a)
    \/ \E i \in Users, a \in AlertIds, ok \in BOOLEAN : acknowledge_alert(i, a, ok)
    \/ \E i \in Users, a \in AlertIds, ok \in BOOLEAN : resolve_alert(i, a, ok)
    \/ \E i \in Users, a \in AlertIds : get_alert_history(i, a)
    \/ \E i \in Users, r \in RuleIds : get_alert_rule(i, r)
    \/ \E i \in Users, r \in RuleIds, data \in TenantUpdateBodies, ok \in BOOLEAN :
            update_alert_rule(i, r, data, ok)
    \/ \E i \in Users, r \in RuleIds, ok \in BOOLEAN : delete_alert_rule(i, r, ok)

SpecTenant == Init /\ [][NextTenant]_vars

----------------------------------------------------------------------------
(* Rules are created and updated.  The bodies of POST /rules are a         *)
(* complete body and the bodies that differ from it in one key: the key    *)
(* left out, empty, or with a value the program does not know.             *)

CompleteBody ==
    [name |-> "cpu", rule_type |-> "health_check",
     conditions |-> [metric_threshold |-> 1, operator |-> ">"]]

Without(data, key) == [k \in DOMAIN data \ {key} |-> data[k]]
With(data, key, value) ==
    [k \in DOMAIN data \cup {key} |-> IF k = key THEN value ELSE data[k]]

CreateBodies ==
    {CompleteBody, <<>>}
    \cup {Without(CompleteBody, k) : k \in DOMAIN CompleteBody}
    \cup {With(CompleteBody, "name", ""), With(CompleteBody, "rule_type", ""),
          With(CompleteBody, "conditions", <<>>)}
    \cup {With(CompleteBody, "severity", v) : v \in {"critical", "bogus"}}
    \cup {With(CompleteBody, "rule_type", "bogus"),
          With(CompleteBody, "conditions", [metric_threshold |-> 1, operator |-> ">="])}

RuleUpdateBodies ==
    {[severity |-> "info"],
     [severity |-> "bogus", rule_type |-> "custom"],
     [rule_type |-> "bogus",
      conditions |-> [metric_threshold |-> 1, operator |-> "!="]]}

NextCreate ==
    \/ \E i \in Identities, data \in CreateBodies, ok \in BOOLEAN :
            create_alert_rule(i, data, ok)
    \/ \E i \in Identities, r \in RuleIds, data \in RuleUpdateBodies, ok \in BOOLEAN :
            update_alert_rule(i, r, data, ok)

SpecCreate == Init /\ [][NextCreate]_vars

----------------------------------------------------------------------------
(* Rules are created and deleted while the evaluations create alerts.  The *)
(* commit of a DELETE fails only by the constraint on alerts.alert_rule_id.*)

PipelineRuleBody ==
    [name |-> "nightly", rule_type |-> "pipeline_failure",
     conditions |-> [status |-> "failed"]]

NextDelete ==
    \/ \E i \in Users, ok \in BOOLEAN : create_alert_rule(i, PipelineRuleBody, ok)
    \/ \E i \in Users, r \in 1..MaxRules : delete_alert_rule(i, r, TRUE)
    \/ \E r \in 1..MaxRules, c \in Contexts :
            evaluate_and_maybe_fire(r, c) /\ UNCHANGED call

SpecDelete == Init /\ [][NextDelete]_vars

----------------------------------------------------------------------------
(* Evaluations running side by side.  Nothing isolates the read of the     *)
(* rule's alerts in should_trigger from the later insert of the new alert: *)
(* an evaluation first decides on the rows committed so far, and creates   *)
(* its alert in a second step.                                             *)

begin_evaluation(w, rule_id, context) ==
    /\ workers[w].pc = "idle"
    /\ rule_id \in DOMAIN rules
    /\ workers' = [workers EXCEPT ![w] =
            [pc |-> "checked", rule_id |-> rule_id, context_data |-> context,
             trigger |-> should_trigger(rules[rule_id], AlertsOfRule(rule_id),
                                        now, context)]]
    /\ UNCHANGED <<now, rules, alerts, history, response, call, rule_id_seq, organizations, pipelines>>

finish_evaluation(w) ==
    /\ workers[w].pc = "checked"
    /\ IF workers[w].trigger
       THEN /\ Len(alerts) < MaxAlerts
            /\ Len(history) < MaxHistory
            /\ alerts' = Append(alerts,
                    NewAlert(rules[workers[w].rule_id], workers[w].context_data))
            /\ history' = Append(history,
                    HistoryEntry(Len(alerts) + 1, "created", <<"Alert created">>, None))
       ELSE UNCHANGED <<alerts, history>>
    /\ workers' = [workers EXCEPT ![w] = Idle]
    /\ UNCHANGED <<now, rules, response, call, rule_id_seq, organizations, pipelines>>

NextRace ==
    \/ \E d \in ClockSteps : Tick(d)
    \/ \E w \in Workers, r \in RuleIds, c \in Contexts : begin_evaluation(w, r, c)
    \/ \E w \in Workers : finish_evaluation(w)

SpecRace == Init /\ [][NextRace]_vars

----------------------------------------------------------------------------
(* Acknowledge and resolve requests running side by side.  A request       *)
(* first loads the alert and tests its status, and later changes the row   *)
(* and commits; nothing locks the row in between, and the UPDATE of the    *)
(* commit writes the columns the request assigned, whatever the row holds  *)
(* by then.                                                                *)

acknowledge_alert_load(w, identity, alert_id) ==
    LET cu == get_current_user_org(identity)
        alert == IF cu.org = None THEN None ELSE QueryAlert(alert_id, Get(cu.org))
    IN  /\ workers[w].pc = "idle"
        /\ IF cu.org = None
           THEN Respond("acknowledge", 404) /\ UNCHANGED workers
           ELSE IF alert = None
           THEN Respond("acknowledge", 404) /\ UNCHANGED workers
           ELSE IF is_acknowledged(Get(alert))
           THEN Respond("acknowledge", 400) /\ UNCHANGED workers
           ELSE /\ workers' = [workers EXCEPT ![w] =
                        [pc |-> "loaded", op |-> "acknowledge",
                         user_id |-> Get(cu.user), alert_id |-> alert_id]]
                /\ UNCHANGED response
        /\ UNCHANGED <<now, rules, alerts, history, call, rule_id_seq, organizations, pipelines>>

acknowledge_alert_commit(w, commit_ok) ==
    /\ workers[w].pc = "loaded"
    /\ workers[w].op = "acknowledge"
    /\ LET alert_id == workers[w].alert_id
           user_id == workers[w].user_id
       IN  IF commit_ok
           THEN /\ Len(history) < MaxHistory
                /\ alerts' = [alerts EXCEPT
                        ![alert_id] = acknowledge(alerts[alert_id], user_id, now)]
                /\ history' = Append(history,
                        HistoryEntry(alert_id, "acknowledged",
                                     <<"Alert acknowledged by", user_id>>, Some(user_id)))
                /\ Respond("acknowledge", 200)
           ELSE /\ Respond("acknowledge", 500)
                /\ UNCHANGED <<alerts, history>>
    /\ workers' = [workers EXCEPT ![w] = Idle]
    /\ UNCHANGED <<now, rules, call, rule_id_seq, organizations, pipelines>>

resolve_alert_load(w, identity, alert_id) ==
    LET cu == get_current_user_org(identity)
        alert == IF cu.org = None THEN None ELSE QueryAlert(alert_id, Get(cu.org))
    IN  /\ workers[w].pc = "idle"
        /\ IF cu.org = None
           THEN Respond("resolve", 404) /\ UNCHANGED workers
           ELSE IF alert = None
           THEN Respond("resolve", 404) /\ UNCHANGED workers
           ELSE IF is_resolved(Get(alert))
           THEN Respond("resolve", 400) /\ UNCHANGED workers
           ELSE /\ workers' = [workers EXCEPT ![w] =
                        [pc |-> "loaded", op |-> "resolve",
                         user_id |-> Get(cu.user), alert_id |-> alert_id]]
                /\ UNCHANGED response
        /\ UNCHANGED <<now, rules, alerts, history, call, rule_id_seq, organizations, pipelines>>

resolve_alert_commit(w, commit_ok) ==
    /\ workers[w].pc = "loaded"
    /\ workers[w].op = "resolve"
    /\ LET alert_id == workers[w].alert_id
           user_id == workers[w].user_id
       IN  IF commit_ok
           THEN /\ Len(history) < MaxHistory
                /\ alerts' = [alerts EXCEPT
                        ![alert_id] = resolve(alerts[alert_id], user_id, now)]
                /\ history' = Append(history,
                        HistoryEntry(alert_id, "resolved",
                                     <<"Alert resolved by", user_id>>, Some(user_id)))
                /\ Respond("resolve", 200)
           ELSE /\ Respond("resolve", 500)
                /\ UNCHANGED <<alerts, history>>
    /\ workers' = [workers EXCEPT ![w] = Idle]
    /\ UNCHANGED <<now, rules, call, rule_id_seq, organizations, pipelines>>

NextRequests ==
    \/ \E r \in RuleIds, c \in Contexts :
            evaluate_and_maybe_fire(r, c) /\ UNCHANGED call
    \/ \E w \in Workers, i \in Identities, a \in AlertIds :
            acknowledge_alert_load(w, i, a)
    \/ \E w \in Workers, ok \in BOOLEAN : acknowledge_alert_commit(w, ok)
    \/ \E w \in Workers, i \in Identities, a \in AlertIds :
            resolve_alert_load(w, i, a)
    \/ \E w \in Workers, ok \in BOOLEAN : resolve_alert_commit(w, ok)

SpecRequests == Init /\ [][NextRequests]_vars

----------------------------------------------------------------------------
(* Direct calls of AlertRule.should_trigger: the rule, its alerts, the     *)
(* clock and the context are drawn from bounded sets, the call stores the  *)
(* value returned.                                                         *)

CallTimes == {t * 30 : t \in 0..(2 * MaxCallMinutes)}

CallRules ==
    {[id |-> 1, organization_id |-> 1, created_by |-> 1, severity |-> "warning",
      is_active |-> act, cooldown_minutes |-> cd,
      rule_type |-> "pipeline_failure", conditions |-> [status |-> "failed"]] :
        act \in BOOLEAN, cd \in {None} \cup {Some(m) : m \in 0..MaxCallMinutes}}

CallAlertRows ==
    [created_at : CallTimes, status : {ACTIVE, RESOLVED}]

CallAlertLists ==
    UNION {[1..n -> CallAlertRows] : n \in 0..MaxCallAlerts}

InitGate ==
    /\ now = 0
    /\ rules = InitialRules
    /\ alerts = <<>>
    /\ history = <<>>
    /\ response = NoResponse
    /\ workers = NoWorkers
    /\ rule_id_seq = Cardinality(RuleIds)
    /\ organizations = InitialOrganizations
    /\ pipelines = <<>>
    /\ \E rule \in CallRules, rule_alerts \in CallAlertLists,
          utcnow \in CallTimes, context_data \in Contexts :
            /\ \A i \in 1..Len(rule_alerts) : rule_alerts[i].created_at <= utcnow
            /\ call = [fn |-> "should_trigger", rule |-> rule, alerts |-> rule_alerts,
                       utcnow |-> utcnow, context_data |-> context_data,
                       result |-> None]

call_should_trigger ==
    /\ call.fn = "should_trigger"
    /\ call.result = None
    /\ call' = [call EXCEPT !.result =
                    Some(should_trigger(call.rule, call.alerts, call.utcnow,
                                        call.context_data))]
    /\ UNCHANGED <<now, rules, alerts, history, response, workers, rule_id_seq, organizations, pipelines>>

NextGate == call_should_trigger

SpecGate == InitGate /\ [][NextGate]_vars

----------------------------------------------------------------------------
(* should_trigger called twice in a row on one rule of any rule_type, with *)
(* the same alerts, clock value and context.                               *)

TriggerRules ==
    {[id |-> 1, organization_id |-> 1, created_by |-> 1, severity |-> "warning",
      is_active |-> act, cooldown_minutes |-> cd,
      rule_type |-> type, conditions |-> [status |-> "failed"]] :
        act \in BOOLEAN, cd \in {None, Some(0), Some(1)},
        type \in {"pipeline_failure", "health_check", "custom", "bogus"}}

TriggerAlertLists ==
    UNION {[1..n -> [created_at : CallTimes, status : {ACTIVE}]] :
                n \in 0..MaxCallAlerts}

InitTrigger ==
    /\ now = 0
    /\ rules = InitialRules
    /\ alerts = <<>>
    /\ history = <<>>
    /\ response = NoResponse
    /\ workers = NoWorkers
    /\ rule_id_seq = Cardinality(RuleIds)
    /\ organizations = InitialOrganizations
    /\ pipelines = <<>>
    /\ \E rule \in TriggerRules, rule_alerts \in TriggerAlertLists,
          utcnow \in CallTimes, context_data \in Contexts :
            /\ \A i \in 1..Len(rule_alerts) : rule_alerts[i].created_at <= utcnow
            /\ call = [fn |-> "should_trigger_twice", rule |-> rule,
                       alerts |-> rule_alerts, utcnow |-> utcnow,
                       context_data |-> context_data,
                       calls |-> 0, previous |-> None, result |-> None]

(* Variant: a call that returns True notes the firing among the rule's alerts *)
call_should_trigger_twice_RecordsFiring ==
    /\ call.fn = "should_trigger_twice"
    /\ call.calls < 2
    /\ LET result == should_trigger(call.rule, call.alerts, call.utcnow,
                                    call.context_data)
       IN  call' = [call EXCEPT
                        !.calls = @ + 1,
                        !.previous = call.result,
                        !.result = Some(result),
                        !.alerts = IF result
                                   THEN Append(@, [created_at |-> call.utcnow,
                                                   status |-> ACTIVE])
                                   ELSE @]
    /\ UNCHANGED <<now, rules, alerts, history, response, workers, rule_id_seq, organizations, pipelines>>

call_should_trigger_twice ==
    /\ call.fn = "should_trigger_twice"
    /\ call.calls < 2
    /\ call' = [call EXCEPT
                    !.calls = @ + 1,
                    !.previous = call.result,
                    !.result = Some(should_trigger(call.rule, call.alerts,
                                                   call.utcnow, call.context_data))]
    /\ UNCHANGED <<now, rules, alerts, history, response, workers, rule_id_seq, organizations, pipelines>>

NextTrigger == call_should_trigger_twice

SpecTrigger == InitTrigger /\ [][NextTrigger]_vars

----------------------------------------------------------------------------
(* Direct calls of the condition evaluators on conditions and contexts     *)
(* drawn from bounded sets.                                                *)

StatusValues == {"failed", "success"}

PipelineConditions ==
    {[k \in keys |-> t[k]] :
        keys \in SUBSET {"status", "failure_count", "duration_threshold"},
        t \in [status : StatusValues, failure_count : 0..MaxCount,
               duration_threshold : 0..MaxCount]}

PipelineContexts ==
    {[k \in keys |-> t[k]] :
        keys \in SUBSET {"status", "failure_count", "duration_seconds"},
        t \in [status : StatusValues, failure_count : 0..MaxCount,
               duration_seconds : 0..MaxCount]}

(* The operators the evaluator compares with, and two it does not know *)
SupportedOperators == {">", "<", "=="}
Operators == SupportedOperators \cup {">=", "!="}

HealthCheckConditions ==
    {[k \in keys |-> t[k]] :
        keys \in SUBSET {"status", "metric_threshold", "operator"},
        t \in [status : StatusValues, metric_threshold : 0..MaxCount,
               operator : Operators]}

HealthCheckContexts ==
    {[k \in keys |-> t[k]] :
        keys \in SUBSET {"status", "metric_value"},
        t \in [status : StatusValues, metric_value : 0..MaxCount]}

InitEval ==
    /\ now = 0
    /\ rules = InitialRules
    /\ alerts = <<>>
    /\ history = <<>>
    /\ response = NoResponse
    /\ workers = NoWorkers
    /\ rule_id_seq = Cardinality(RuleIds)
    /\ organizations = InitialOrganizations
    /\ pipelines = <<>>
    /\ \/ \E conditions \in PipelineConditions, context_data \in PipelineContexts :
            call = [fn |-> "evaluate_pipeline_conditions",
                    conditions |-> conditions, context_data |-> context_data,
                    result |-> None]
       \/ \E conditions \in HealthCheckConditions, context_data \in HealthCheckContexts :
            call = [fn |-> "evaluate_health_check_conditions",
                    conditions |-> conditions, context_data |-> context_data,
                    result |-> None]

call_evaluate_pipeline_conditions ==
    /\ call.fn = "evaluate_pipeline_conditions"
    /\ call.result = None
    /\ call' = [call EXCEPT !.result =
                    Some(evaluate_pipeline_conditions(call.conditions, call.context_data))]
    /\ UNCHANGED <<now, rules, alerts, history, response, workers, rule_id_seq, organizations, pipelines>>

call_evaluate_health_check_conditions ==
    /\ call.fn = "evaluate_health_check_conditions"
    /\ call.result = None
    /\ call' = [call EXCEPT !.result =
                    Some(evaluate_health_check_conditions(call.conditions,
                                                          call.context_data))]
    /\ UNCHANGED <<now, rules, alerts, history, response, workers, rule_id_seq, organizations, pipelines>>

NextEval ==
    \/ call_evaluate_pipeline_conditions
    \/ call_evaluate_health_check_conditions

SpecEval == InitEval /\ [][NextEval]_vars

----------------------------------------------------------------------------
(* Helpers of the properties *)

(* The alert that a request of `identity` for `alert_id` finds, if any *)
Visible(identity, alert_id) ==
    /\ identity \in Users
    /\ QueryAlert(alert_id, UserOrganization(identity)) # None

StatusIn(alert_id, statuses) == alerts[alert_id].status \in statuses

----------------------------------------------------------------------------
(* C1: an acknowledge request on an alert whose status is ACKNOWLEDGED or  *)
(* RESOLVED is answered 400 (invalid state) instead of succeeding (the     *)
(* storage works: the commit does not raise).                              *)
C1_AcknowledgeOnlyFromActive ==
    [][\A i \in Users, a \in AlertIds :
         (/\ Visible(i, a)
          /\ StatusIn(a, {ACKNOWLEDGED, RESOLVED})
          /\ acknowledge_alert(i, a, TRUE))
         => response'.code = 400]_vars

(* C2: a resolve request on an alert the caller can see is answered 400    *)
(* exactly when the alert is RESOLVED; from ACTIVE or ACKNOWLEDGED, when   *)
(* the storage commits, it is answered 200 and the alert is RESOLVED.      *)
C2_ResolveLegality ==
    [][\A i \in Users, a \in AlertIds, ok \in BOOLEAN :
         (Visible(i, a) /\ resolve_alert(i, a, ok))
         => /\ (response'.code = 400) <=> StatusIn(a, {RESOLVED})
            /\ (StatusIn(a, {ACTIVE, ACKNOWLEDGED}) /\ ok)
                 => (response'.code = 200 /\ alerts'[a].status = RESOLVED)]_vars

(* C2, its case: a resolved alert whose second resolve request was         *)
(* answered 400.                                                           *)
C2_Witness ==
    /\ response = [op |-> "resolve", code |-> 400]
    /\ \E a \in 1..Len(alerts) :
          alerts[a].status = RESOLVED /\ alerts[a].resolved_by = Some(1)

(* C3: once an alert is RESOLVED no request changes its status.            *)
C3_ResolvedIsTerminal ==
    [][\A a \in 1..Len(alerts) :
         alerts[a].status = RESOLVED => alerts'[a].status = RESOLVED]_vars

(* C4: an alert whose status is not ACTIVE is never ACTIVE again.          *)
C4_NeverBackToActive ==
    [][\A a \in 1..Len(alerts) :
         alerts[a].status # ACTIVE => alerts'[a].status # ACTIVE]_vars

(* C4, its case: an alert that has been resolved and then acknowledged     *)
(* again, and another request on it answered since.                        *)
C4_Witness ==
    \E a \in 1..Len(alerts) :
        /\ alerts[a].status = ACKNOWLEDGED
        /\ alerts[a].resolved_at # None
        /\ response = [op |-> "acknowledge", code |-> 400]

(* C5: an acknowledge request on an ACKNOWLEDGED alert, and a resolve      *)
(* request on a RESOLVED alert, is answered 400 and changes no alert and   *)
(* no history entry.                                                       *)
C5_RejectedTransitionChangesNothing ==
    [][\A i \in Users, a \in AlertIds, ok \in BOOLEAN :
         (\/ (Visible(i, a) /\ StatusIn(a, {ACKNOWLEDGED}) /\ acknowledge_alert(i, a, ok))
          \/ (Visible(i, a) /\ StatusIn(a, {RESOLVED}) /\ resolve_alert(i, a, ok)))
         => /\ response'.code = 400
            /\ alerts' = alerts
            /\ history' = history]_vars

(* C5, its case: an acknowledged alert whose second acknowledge request    *)
(* was answered 400.                                                       *)
C5_Witness ==
    /\ response = [op |-> "acknowledge", code |-> 400]
    /\ \E a \in 1..Len(alerts) :
          /\ alerts[a].status = ACKNOWLEDGED
          /\ Len(SelectSeq(history, LAMBDA h : h.alert_id = a /\ h.action = "acknowledged")) = 1

----------------------------------------------------------------------------
(* Helpers of the properties about should_trigger.  The latest creation    *)
(* time is taken over the set of creation times, whatever the order and    *)
(* the statuses of the alerts.                                             *)

CreatedAts(rule_alerts) == {rule_alerts[i].created_at : i \in 1..Len(rule_alerts)}
LatestCreatedAt(rule_alerts) ==
    CHOOSE t \in CreatedAts(rule_alerts) : \A u \in CreatedAts(rule_alerts) : u <= t

Called == call.fn = "should_trigger" /\ call.result # None
CallElapsed == call.utcnow - LatestCreatedAt(call.alerts)
CallConditionHolds == evaluate_pipeline_conditions(call.rule.conditions, call.context_data)
CallCooldownSet ==
    call.rule.cooldown_minutes # None /\ Get(call.rule.cooldown_minutes) > 0

(* C6: for a rule with cooldown_minutes = M > 0 and at least one alert,    *)
(* should_trigger returns False when the latest alert was created less     *)
(* than M minutes before now; when M minutes or more have passed, an       *)
(* active rule triggers exactly when its condition holds.                  *)
C6_CooldownBoundary ==
    (Called /\ CallCooldownSet /\ call.alerts # <<>>)
    => LET M == Get(call.rule.cooldown_minutes)
       IN  /\ CallElapsed < M * SecondsPerMinute => call.result = Some(FALSE)
           /\ (CallElapsed >= M * SecondsPerMinute /\ call.rule.is_active)
                => call.result = Some(CallConditionHolds)

(* C6, its case: exactly M minutes after the latest alert the rule         *)
(* triggers.                                                               *)
C6_Witness ==
    /\ Called /\ CallCooldownSet /\ call.alerts # <<>>
    /\ CallElapsed = Get(call.rule.cooldown_minutes) * SecondsPerMinute
    /\ call.result = Some(TRUE)

(* C7: for an active rule whose cooldown_minutes is 0 or unset the result  *)
(* of should_trigger is the condition evaluation, whatever alerts exist.   *)
C7_NoCooldownNeverBlocks ==
    (Called /\ ~CallCooldownSet /\ call.rule.is_active)
    => call.result = Some(CallConditionHolds)

(* C7, its case: a rule without cooldown triggers at the very time its     *)
(* latest alert was created.                                               *)
C7_Witness ==
    /\ Called /\ ~CallCooldownSet
    /\ call.alerts # <<>>
    /\ CallElapsed = 0
    /\ call.result = Some(TRUE)

(* C9: the cooldown is measured from the latest creation time among all    *)
(* alerts of the rule, whatever their statuses and their order; a rule     *)
(* without alerts is not held back.                                        *)
C9_CooldownFromLatestAlert ==
    (Called /\ call.rule.is_active)
    => LET blocked ==
               /\ CallCooldownSet
               /\ call.alerts # <<>>
               /\ CallElapsed < Get(call.rule.cooldown_minutes) * SecondsPerMinute
       IN  /\ call.result = Some(~blocked /\ CallConditionHolds)
           /\ call.alerts = <<>> => call.result = Some(CallConditionHolds)
           /\ call.alerts # <<>> =>
                Get(get_last_alert(call.alerts)).created_at = LatestCreatedAt(call.alerts)

(* C9, its case: the latest alert is stored first and is RESOLVED, an      *)
(* older ACTIVE alert is stored after it; the rule is held back.           *)
C9_Witness ==
    /\ Called /\ CallCooldownSet /\ call.rule.is_active
    /\ Len(call.alerts) = 2
    /\ call.alerts[1].created_at > call.alerts[2].created_at
    /\ call.alerts[1].status = RESOLVED
    /\ call.alerts[2].status = ACTIVE
    /\ call.utcnow - call.alerts[2].created_at
         >= Get(call.rule.cooldown_minutes) * SecondsPerMinute
    /\ CallConditionHolds
    /\ call.result = Some(FALSE)

----------------------------------------------------------------------------
(* C10: evaluate_pipeline_conditions returns True exactly when every check *)
(* present in conditions holds; a key absent from conditions is satisfied. *)
C10_PipelineConditions ==
    (call.fn = "evaluate_pipeline_conditions" /\ call.result # None)
    => LET c == call.conditions
           x == call.context_data
           status_ok ==
               HasKey(c, "status") => (HasKey(x, "status") /\ x.status = c.status)
           failures_ok ==
               HasKey(c, "failure_count") =>
                   (IF HasKey(x, "failure_count") THEN x.failure_count ELSE 0)
                       >= c.failure_count
           duration_ok ==
               HasKey(c, "duration_threshold") =>
                   (IF HasKey(x, "duration_seconds") THEN x.duration_seconds ELSE 0)
                       >= c.duration_threshold
       IN  call.result = Some(status_ok /\ failures_ok /\ duration_ok)

(* C10, its case: all three checks are present, the counts meet their      *)
(* thresholds exactly, and the evaluator returns True.                     *)
C10_Witness ==
    /\ call.fn = "evaluate_pipeline_conditions"
    /\ DOMAIN call.conditions = {"status", "failure_count", "duration_threshold"}
    /\ DOMAIN call.context_data = {"status", "failure_count", "duration_seconds"}
    /\ call.conditions.failure_count = call.context_data.failure_count
    /\ call.conditions.failure_count > 0
    /\ call.conditions.duration_threshold = call.context_data.duration_seconds
    /\ call.result = Some(TRUE)

----------------------------------------------------------------------------
(* Helpers of the properties about firing *)

RuleCooldownSeconds(rule_id) ==
    IF Truthy(rules[rule_id].cooldown_minutes)
    THEN Get(rules[rule_id].cooldown_minutes) * SecondsPerMinute
    ELSE 0

(* Some alert of the rule was created less than cooldown_minutes ago *)
InCooldownWindow(rule_id) ==
    \E j \in 1..Len(alerts) :
        /\ alerts[j].alert_rule_id = rule_id
        /\ now - alerts[j].created_at < RuleCooldownSeconds(rule_id)

(* C8 as stated: in every state any two alerts of one rule were created    *)
(* at least the rule's cooldown_minutes apart.                             *)
C8_AnyTwoAlertsCooldownApart ==
    \A j, k \in 1..Len(alerts) :
        (j < k /\ alerts[j].alert_rule_id = alerts[k].alert_rule_id)
        => alerts[k].created_at - alerts[j].created_at
             >= RuleCooldownSeconds(alerts[j].alert_rule_id)

(* C8, amended: while a rule is inside the cooldown window of its latest   *)
(* alert no step creates an alert of the rule or a history entry for one,  *)
(* and every alert is created at least cooldown_minutes, as the rule has   *)
(* it at that evaluation, after every earlier alert of its rule.           *)
C8_CooldownGateHardSilent ==
    [][/\ \A r \in DOMAIN rules :
            InCooldownWindow(r)
            => /\ \A k \in (Len(alerts) + 1)..Len(alerts') :
                      alerts'[k].alert_rule_id # r
               /\ \A h \in (Len(history) + 1)..Len(history') :
                      alerts'[history'[h].alert_id].alert_rule_id # r
       /\ \A k \in (Len(alerts) + 1)..Len(alerts'), j \in 1..Len(alerts) :
            alerts[j].alert_rule_id = alerts'[k].alert_rule_id
            => alerts'[k].created_at - alerts[j].created_at
                 >= RuleCooldownSeconds(alerts'[k].alert_rule_id)]_vars

(* C8, its case: an evaluation of an active rule whose condition holds,    *)
(* half a minute after the rule's latest alert and inside its cooldown,    *)
(* returned no alert; the rule still has that one alert and one history    *)
(* entry.                                                                  *)
C8_Witness ==
    /\ call.fn = "evaluate_and_maybe_fire"
    /\ call.result = None
    /\ rules[call.rule_id].is_active
    /\ evaluate_pipeline_conditions(rules[call.rule_id].conditions, call.context_data)
    /\ InCooldownWindow(call.rule_id)
    /\ now = 30
    /\ Len(alerts) = 1 /\ alerts[1].alert_rule_id = call.rule_id /\ alerts[1].created_at = 0
    /\ Len(history) = 1

----------------------------------------------------------------------------
(* Helpers of the properties about evaluate_health_check_conditions *)

HealthCalled == call.fn = "evaluate_health_check_conditions" /\ call.result # None
HealthOperator ==
    IF HasKey(call.conditions, "operator") THEN call.conditions.operator ELSE ">"
HealthMetricValue ==
    IF HasKey(call.context_data, "metric_value") THEN call.context_data.metric_value ELSE 0
HealthStatusOk ==
    HasKey(call.conditions, "status")
    => (HasKey(call.context_data, "status")
        /\ call.context_data.status = call.conditions.status)

(* C11: with a supported operator evaluate_health_check_conditions returns *)
(* True exactly when the status check, if present, holds and the metric    *)
(* check, if present, holds: value > threshold, value < threshold or       *)
(* value = threshold, by the operator, '>' when none is given.             *)
C11_HealthCheckConditions ==
    (HealthCalled /\ HealthOperator \in SupportedOperators)
    => LET metric_ok ==
               HasKey(call.conditions, "metric_threshold")
               => CASE HealthOperator = ">" ->
                          HealthMetricValue > call.conditions.metric_threshold
                    [] HealthOperator = "<" ->
                          HealthMetricValue < call.conditions.metric_threshold
                    [] HealthOperator = "==" ->
                          HealthMetricValue = call.conditions.metric_threshold
       IN  call.result = Some(HealthStatusOk /\ metric_ok)

(* C11, its case: the value equals the threshold, the operator is '>' by   *)
(* default, and the evaluator returns False.                               *)
C11_Witness ==
    /\ HealthCalled
    /\ HasKey(call.conditions, "metric_threshold")
    /\ ~HasKey(call.conditions, "operator")
    /\ HasKey(call.context_data, "metric_value")
    /\ call.context_data.metric_value = call.conditions.metric_threshold
    /\ call.conditions.metric_threshold > 0
    /\ HealthStatusOk
    /\ call.result = Some(FALSE)

(* C12: with metric_threshold present and an operator other than '>', '<'  *)
(* and '==' evaluate_health_check_conditions does not return True.         *)
C12_UnsupportedOperatorNeverPasses ==
    (/\ HealthCalled
     /\ HasKey(call.conditions, "metric_threshold")
     /\ HealthOperator \notin SupportedOperators)
    => call.result # Some(TRUE)

----------------------------------------------------------------------------
(* C13: the cooldown check and the creation of the alert are two steps.    *)
(* An evaluation decides on the alerts committed when it reads them: it    *)
(* passes exactly when the rule is active, its condition holds and no      *)
(* committed alert of the rule is inside the cooldown window; an           *)
(* evaluation that passed creates its alert whatever was committed in      *)
(* between.  So two evaluations can both pass before either creates.       *)
C13_CheckThenCreate ==
    [][\A w \in Workers :
          /\ (workers[w].pc = "idle" /\ workers'[w].pc = "checked")
             => LET r == workers'[w].rule_id
                IN  workers'[w].trigger =
                        (/\ rules[r].is_active
                         /\ evaluate_pipeline_conditions(rules[r].conditions,
                                                         workers'[w].context_data)
                         /\ ~InCooldownWindow(r))
          /\ (workers[w].pc = "checked" /\ workers[w].trigger
                  /\ workers'[w].pc = "idle")
             => /\ Len(alerts') = Len(alerts) + 1
                /\ alerts'[Len(alerts')].alert_rule_id = workers[w].rule_id
                /\ alerts'[Len(alerts')].created_at = now]_vars

(* C13, its case: a rule with a cooldown of M > 0 minutes has two alerts   *)
(* created less than M minutes apart, and both evaluations are over.       *)
C13_Witness ==
    /\ \A w \in Workers : workers[w].pc = "idle"
    /\ \E j, k \in 1..Len(alerts) :
        /\ j < k
        /\ alerts[j].alert_rule_id = alerts[k].alert_rule_id
        /\ RuleCooldownSeconds(alerts[j].alert_rule_id) > 0
        /\ alerts[k].created_at - alerts[j].created_at
             < RuleCooldownSeconds(alerts[j].alert_rule_id)

----------------------------------------------------------------------------
(* C14: tenant isolation.  A request of a user for an alert or a rule of   *)
(* another organization (get, acknowledge, resolve, history; get, update,  *)
(* delete) is answered 404 and changes no rule, alert or history entry.    *)

ForeignAlert(identity, alert_id) ==
    /\ identity \in Users
    /\ alert_id \in 1..Len(alerts)
    /\ alerts[alert_id].organization_id # UserOrganization(identity)

ForeignRule(identity, rule_id) ==
    /\ identity \in Users
    /\ rule_id \in DOMAIN rules
    /\ rules[rule_id].organization_id # UserOrganization(identity)

NotFoundNothingChanged ==
    /\ response'.code = 404
    /\ UNCHANGED <<rules, alerts, history>>

C14_TenantIsolation ==
    [][/\ \A i \in Users, a \in AlertIds :
            ForeignAlert(i, a)
            => /\ get_alert(i, a) => NotFoundNothingChanged
               /\ get_alert_history(i, a) => NotFoundNothingChanged
               /\ \A ok \in BOOLEAN :
                    /\ acknowledge_alert(i, a, ok) => NotFoundNothingChanged
                    /\ resolve_alert(i, a, ok) => NotFoundNothingChanged
       /\ \A i \in Users, r \in RuleIds :
            ForeignRule(i, r)
            => /\ get_alert_rule(i, r) => NotFoundNothingChanged
               /\ \A ok \in BOOLEAN :
                    /\ delete_alert_rule(i, r, ok) => NotFoundNothingChanged
                    /\ \A data \in TenantUpdateBodies :
                         update_alert_rule(i, r, data, ok) => NotFoundNothingChanged]_vars

(* C14, its case: every alert id names an alert of organization 1, and the *)
(* history request of the user of organization 2 was answered 404.         *)
C14_Witness ==
    /\ Len(alerts) = MaxAlerts
    /\ \A a \in AlertIds : alerts[a].organization_id = 1
    /\ \E a \in AlertIds : ~is_active(alerts[a])
    /\ response = [op |-> "get_history", code |-> 404]

----------------------------------------------------------------------------
(* C15: a POST /rules of a user whose organization exists, with a body     *)
(* that lacks name, rule_type or conditions, is answered 400 and creates   *)
(* no rule.                                                                *)
RequiredFields == {"name", "rule_type", "conditions"}

RuleTypes == {"pipeline_failure", "health_check", "custom"}

C16_StoredRulesRecognized ==
    \A r \in DOMAIN rules :
        /\ rules[r].severity \in AlertSeverity
        /\ rules[r].rule_type \in RuleTypes
        /\ HasKey(rules[r].conditions, "operator")
           => rules[r].conditions.operator \in SupportedOperators

----------------------------------------------------------------------------
(* C17: the alert history is append-only.  No step of the evaluations, of  *)
(* the alert requests or of the rule requests removes a history entry or   *)
(* changes its alert_id, action, description or actor.                     *)
C17_HistoryAppendOnly ==
    [][/\ Len(history') >= Len(history)
       /\ \A h \in 1..Len(history) : history'[h] = history[h]]_vars

(* C17, its case: an alert was created, acknowledged and resolved, each    *)
(* with its entry, and a rule was updated afterwards.                      *)
C17_Witness ==
    /\ Len(history) = 3
    /\ history[1].action = "created"
    /\ history[2] = HistoryEntry(history[1].alert_id, "acknowledged",
                                 <<"Alert acknowledged by", 1>>, Some(1))
    /\ history[3] = HistoryEntry(history[1].alert_id, "resolved",
                                 <<"Alert resolved by", 1>>, Some(1))
    /\ response = [op |-> "update_rule", code |-> 200]

----------------------------------------------------------------------------
(* Durations are fractions of minutes *)
Minutes(seconds) == [num |-> seconds, den |-> SecondsPerMinute]
FractionLeq(a, b) == a.num * b.den <= b.num * a.den

C19_ActiveDurationMonotone ==
    [][\A a \in 1..Len(alerts) :
          (is_active(alerts[a]) /\ is_active(alerts'[a]))
          => FractionLeq(get_duration_minutes(alerts[a], now),
                         get_duration_minutes(alerts'[a], now'))]_vars

(* C19, its case: an alert created at time 0 is still ACTIVE a minute      *)
(* later, and its duration is one minute.                                  *)
C19_Witness ==
    \E a \in 1..Len(alerts) :
        /\ is_active(alerts[a])
        /\ alerts[a].created_at = 0
        /\ now = SecondsPerMinute
        /\ get_duration_minutes(alerts[a], now) = Minutes(SecondsPerMinute)

----------------------------------------------------------------------------
(* C20: every alert belongs to exactly one existing rule.  After any       *)
(* sequence of rule creations, rule deletions and alert creations the      *)
(* alert_rule_id of every alert names a rule that is stored.               *)
C20_AlertsBelongToExistingRule ==
    \A a \in 1..Len(alerts) :
        /\ alerts[a].alert_rule_id \in DOMAIN rules
        /\ Cardinality({r \in DOMAIN rules : rules[r].id = alerts[a].alert_rule_id}) = 1

(* C20, its case: a rule without alerts was deleted, and the DELETE of a   *)
(* rule that has an alert was refused, the rule and the alert still there. *)
C20_Witness ==
    /\ response = [op |-> "delete_rule", code |-> 500]
    /\ DOMAIN rules # 1..rule_id_seq
    /\ Len(alerts) > 0
    /\ \A r \in DOMAIN rules : AlertsOfRule(r) # <<>>

----------------------------------------------------------------------------
C28_InactiveOrUnknownNeverTriggers ==
    (/\ call.fn = "should_trigger_twice"
     /\ call.calls >= 1
     /\ ~call.rule.is_active \/ call.rule.rule_type \notin RuleTypes)
    => call.result = Some(FALSE)

(* C28, its case: an active rule of an unknown rule_type, without cooldown *)
(* and with the context its conditions ask for, did not trigger.           *)
C28_Witness ==
    /\ call.fn = "should_trigger_twice"
    /\ call.calls >= 1
    /\ call.rule.is_active
    /\ call.rule.rule_type \notin RuleTypes
    /\ call.rule.cooldown_minutes = None
    /\ call.context_data = [status |-> "failed"]
    /\ call.result = Some(FALSE)

----------------------------------------------------------------------------
(* C22: a failing commit of an acknowledge or resolve request is answered  *)
(* 500 and leaves the alert and the history as they were; in every step    *)
(* an existing alert changes exactly when one history entry for it is      *)
(* appended.                                                               *)
C22_CommitFailureLeavesNothing ==
    [][/\ \A i \in Users, a \in AlertIds :
            Visible(i, a)
            => /\ (~is_acknowledged(alerts[a]) /\ acknowledge_alert(i, a, FALSE))
                  => /\ response' = [op |-> "acknowledge", code |-> 500]
                     /\ UNCHANGED <<alerts, history>>
               /\ (~is_resolved(alerts[a]) /\ resolve_alert(i, a, FALSE))
                  => /\ response' = [op |-> "resolve", code |-> 500]
                     /\ UNCHANGED <<alerts, history>>
       /\ \A a \in 1..Len(alerts) :
            (alerts'[a] # alerts[a])
            <=> /\ Len(history') = Len(history) + 1
                /\ history'[Len(history')].alert_id = a
                /\ history'[Len(history')].action \in {"acknowledged", "resolved"}]_vars

(* C22, its case: the resolve request for an acknowledged alert failed at  *)
(* the commit; the alert is still ACKNOWLEDGED, not resolved by anyone,    *)
(* and the history has no 'resolved' entry.                                *)
C22_Witness ==
    /\ response = [op |-> "resolve", code |-> 500]
    /\ Len(alerts) = 1
    /\ alerts[1].status = ACKNOWLEDGED
    /\ alerts[1].resolved_at = None
    /\ alerts[1].resolved_by = None
    /\ Len(history) = 2
    /\ history[2].action = "acknowledged"

(* C23: a successful acknowledge sets status ACKNOWLEDGED, acknowledged_at *)
(* to the current time and acknowledged_by to the caller and appends       *)
(* exactly one 'acknowledged' entry for the alert; a successful resolve    *)
(* does the same with RESOLVED, resolved_at, resolved_by and 'resolved'.   *)
C23_TransitionRecordsActorTimeEntry ==
    [][\A i \in Users, a \in AlertIds :
          /\ (acknowledge_alert(i, a, TRUE) /\ response'.code = 200)
             => /\ alerts'[a].status = ACKNOWLEDGED
                /\ alerts'[a].acknowledged_at = Some(now)
                /\ alerts'[a].acknowledged_by = Some(i)
                /\ Len(history') = Len(history) + 1
                /\ SubSeq(history', 1, Len(history)) = history
                /\ history'[Len(history')].alert_id = a
                /\ history'[Len(history')].action = "acknowledged"
                /\ history'[Len(history')].created_by = Some(i)
          /\ (resolve_alert(i, a, TRUE) /\ response'.code = 200)
             => /\ alerts'[a].status = RESOLVED
                /\ alerts'[a].resolved_at = Some(now)
                /\ alerts'[a].resolved_by = Some(i)
                /\ Len(history') = Len(history) + 1
                /\ SubSeq(history', 1, Len(history)) = history
                /\ history'[Len(history')].alert_id = a
                /\ history'[Len(history')].action = "resolved"
                /\ history'[Len(history')].created_by = Some(i)]_vars

(* C23, its case: an alert created at time 0 was acknowledged by user 1    *)
(* half a minute later and resolved by user 1 at one minute.               *)
C23_Witness ==
    \E a \in 1..Len(alerts) :
        /\ alerts[a].created_at = 0
        /\ alerts[a].status = RESOLVED
        /\ alerts[a].acknowledged_at = Some(30)
        /\ alerts[a].acknowledged_by = Some(1)
        /\ alerts[a].resolved_at = Some(SecondsPerMinute)
        /\ alerts[a].resolved_by = Some(1)
        /\ Len(history) = 3
        /\ history[2].action = "acknowledged"
        /\ history[3].action = "resolved"
        /\ response = [op |-> "resolve", code |-> 200]

----------------------------------------------------------------------------
(* C25: status and actor/timestamp fields are consistent.  ACTIVE: none of *)
(* acknowledged_at, acknowledged_by, resolved_at, resolved_by is set;      *)
(* ACKNOWLEDGED: acknowledged_at and acknowledged_by are set, resolved_at  *)
(* and resolved_by are not; RESOLVED: resolved_at and resolved_by are set. *)
C25_StatusFieldsConsistent ==
    \A a \in 1..Len(alerts) :
        LET alert == alerts[a]
        IN  /\ alert.status = ACTIVE
               => /\ alert.acknowledged_at = None /\ alert.acknowledged_by = None
                  /\ alert.resolved_at = None /\ alert.resolved_by = None
            /\ alert.status = ACKNOWLEDGED
               => /\ alert.acknowledged_at # None /\ alert.acknowledged_by # None
                  /\ alert.resolved_at = None /\ alert.resolved_by = None
            /\ alert.status = RESOLVED
               => alert.resolved_at # None /\ alert.resolved_by # None

(* C26: the timestamps of an alert are ordered: created_at <=              *)
(* acknowledged_at, created_at <= resolved_at, and acknowledged_at <=      *)
(* resolved_at when both are set.                                          *)
C26_TimestampsOrdered ==
    \A a \in 1..Len(alerts) :
        LET alert == alerts[a]
        IN  /\ alert.acknowledged_at # None
               => alert.created_at <= Get(alert.acknowledged_at)
            /\ alert.resolved_at # None
               => alert.created_at <= Get(alert.resolved_at)
            /\ (alert.acknowledged_at # None /\ alert.resolved_at # None)
               => Get(alert.acknowledged_at) <= Get(alert.resolved_at)

----------------------------------------------------------------------------
(* C29: a successful acknowledge of an alert changes only its status,      *)
(* acknowledged_at, acknowledged_by and updated_at, a successful resolve   *)
(* only its status, resolved_at, resolved_by and updated_at; both leave    *)
(* every other alert and every rule unchanged.                             *)
AcknowledgeFields == {"status", "acknowledged_at", "acknowledged_by", "updated_at"}
ResolveFields == {"status", "resolved_at", "resolved_by", "updated_at"}

OnlyFieldsChanged(alert_id, fields) ==
    /\ Len(alerts') = Len(alerts)
    /\ DOMAIN alerts'[alert_id] = DOMAIN alerts[alert_id]
    /\ \A f \in DOMAIN alerts[alert_id] \ fields :
            alerts'[alert_id][f] = alerts[alert_id][f]
    /\ \A b \in 1..Len(alerts) : b # alert_id => alerts'[b] = alerts[b]
    /\ rules' = rules

C29_TransitionsTouchOwnFields ==
    [][\A i \in Users, a \in AlertIds :
          /\ (acknowledge_alert(i, a, TRUE) /\ response'.code = 200)
             => OnlyFieldsChanged(a, AcknowledgeFields)
          /\ (resolve_alert(i, a, TRUE) /\ response'.code = 200)
             => OnlyFieldsChanged(a, ResolveFields)]_vars

(* C29, its case: of two alerts created at time 0, alert 1 was resolved    *)
(* half a minute later; it still names its rule and alert 2 is as it was   *)
(* created.                                                                *)
C29_Witness ==
    /\ Len(alerts) = 2
    /\ response = [op |-> "resolve", code |-> 200]
    /\ alerts[1].status = RESOLVED
    /\ alerts[1].created_at = 0
    /\ alerts[1].resolved_at = Some(30)
    /\ alerts[1].updated_at = 30
    /\ alerts[1].alert_rule_id \in DOMAIN rules
    /\ alerts[2].status = ACTIVE
    /\ alerts[2].updated_at = alerts[2].created_at

----------------------------------------------------------------------------
(* C27: after any interleaving of acknowledge and resolve requests the     *)
(* history of an alert holds at most one 'acknowledged' entry and at most  *)
(* one 'resolved' entry.                                                   *)
EntriesOf(alert_id, action) ==
    {h \in 1..Len(history) :
        history[h].alert_id = alert_id /\ history[h].action = action}

C27_AtMostOneEntryPerAction ==
    \A a \in 1..Len(alerts) :
        /\ Cardinality(EntriesOf(a, "acknowledged")) <= 1
        /\ Cardinality(EntriesOf(a, "resolved")) <= 1

----------------------------------------------------------------------------
(* Organization: subscription tiers and the pipeline quota.                *)

STARTER == "starter"
PROFESSIONAL == "professional"
ENTERPRISE == "enterprise"
SubscriptionTier == {STARTER, PROFESSIONAL, ENTERPRISE}

StarterPipelineLimit == 10
ProfessionalPipelineLimit == 50
UnlimitedPipelines == -1

(* Organization.pipelines: the rows of the relationship, as loaded *)
OrganizationPipelines(org_id) ==
    SelectSeq(pipelines, LAMBDA p : p.organization_id = org_id)

get_pipeline_limit(org) ==
    IF org.subscription_tier = STARTER THEN StarterPipelineLimit
    ELSE IF org.subscription_tier = PROFESSIONAL THEN ProfessionalPipelineLimit
    ELSE IF org.subscription_tier = ENTERPRISE THEN UnlimitedPipelines
    ELSE StarterPipelineLimit

can_add_pipeline(org) ==
    IF org.subscription_tier = ENTERPRISE
    THEN TRUE
    ELSE LET current_count == Len(OrganizationPipelines(org.id))
             limit == get_pipeline_limit(org)
         IN  current_count < limit

----------------------------------------------------------------------------
(* POST /api/pipelines/.  A pipeline name is a sequence of characters,     *)
(* <<>> being the empty string.  The handler reads the quota and the name  *)
(* table first and inserts afterwards; another request's commit can fall   *)
(* between the two, so the handler is two steps of a worker.               *)

PipelineType == {"etl", "elt", "api", "database", "cron", "airflow", "dbt", "custom"}

TruthyName(opt_name) == opt_name # None /\ Get(opt_name) # <<>>

NameExists(name, org_id) ==
    \E i \in 1..Len(pipelines) :
        /\ pipelines[i].name = name
        /\ pipelines[i].organization_id = org_id

NewPipeline(data, org_id, user_id) ==
    [id |-> Len(pipelines) + 1,
     name |-> data.name,
     pipeline_type |-> data.pipeline_type,
     status |-> "active",
     organization_id |-> org_id,
     created_by |-> user_id]

create_pipeline_check(w, identity, data) ==
    LET cu == get_current_user_org(identity)
    IN  /\ workers[w].pc = "idle"
        /\ IF cu.org = None
           THEN Respond("create_pipeline", 404) /\ UNCHANGED workers
           ELSE IF ~can_add_pipeline(organizations[Get(cu.org)])
           THEN Respond("create_pipeline", 403) /\ UNCHANGED workers
           ELSE IF ~TruthyName(DictGet(data, "name"))
           THEN Respond("create_pipeline", 400) /\ UNCHANGED workers
           ELSE IF ~TruthyStr(DictGet(data, "pipeline_type"))
           THEN Respond("create_pipeline", 400) /\ UNCHANGED workers
           ELSE IF data.pipeline_type \notin PipelineType
           THEN Respond("create_pipeline", 400) /\ UNCHANGED workers
           ELSE IF NameExists(data.name, Get(cu.org))
           THEN Respond("create_pipeline", 409) /\ UNCHANGED workers
           ELSE /\ workers' = [workers EXCEPT ![w] =
                        [pc |-> "validated", op |-> "create_pipeline",
                         user_id |-> Get(cu.user),
                         organization_id |-> Get(cu.org),
                         data |-> data]]
                /\ UNCHANGED response
        /\ UNCHANGED <<now, rules, alerts, history, call, rule_id_seq,
                       organizations, pipelines>>

create_pipeline_commit(w, commit_ok) ==
    /\ workers[w].pc = "validated"
    /\ workers[w].op = "create_pipeline"
    /\ IF commit_ok
       THEN /\ Len(pipelines) < MaxPipelines
            /\ pipelines' = Append(pipelines,
                    NewPipeline(workers[w].data, workers[w].organization_id,
                                workers[w].user_id))
            /\ Respond("create_pipeline", 201)
       ELSE /\ Respond("create_pipeline", 500)
            /\ UNCHANGED pipelines
    /\ workers' = [workers EXCEPT ![w] = Idle]
    /\ UNCHANGED <<now, rules, alerts, history, call, rule_id_seq, organizations>>

----------------------------------------------------------------------------
(* Specification of the pipeline quota: two workers serve create_pipeline  *)
(* requests of user 1 and of a token without a user.  Organization 1 is on *)
(* any of the three tiers and already has two pipelines fewer than the     *)
(* smaller limits allow (enterprise: as many as professional);             *)
(* organization 2 has two pipelines of its own.                            *)

OtherOrganizationRows == Cardinality({"orders", "billing"})

SeedCount(tier) ==
    IF tier = STARTER THEN StarterPipelineLimit - 2
    ELSE ProfessionalPipelineLimit - 2

SeedRow(i, tier) ==
    IF i <= OtherOrganizationRows
    THEN [id |-> i, name |-> <<i>>, pipeline_type |-> "etl", status |-> "active",
          organization_id |-> 2, created_by |-> 2]
    ELSE [id |-> i, name |-> <<i - OtherOrganizationRows>>, pipeline_type |-> "etl",
          status |-> "active", organization_id |-> 1, created_by |-> 1]

SeedPipelines(tier) ==
    [i \in 1..(OtherOrganizationRows + SeedCount(tier)) |-> SeedRow(i, tier)]

(* request bodies: a name not yet taken (the next one or the one after),   *)
(* the first name, which is taken; a type that is valid, unknown, empty or *)
(* absent; a body without a name                                           *)
QuotaBodies ==
    LET next == Len(OrganizationPipelines(1)) + 1
    IN  {[name |-> <<n>>, pipeline_type |-> "etl"] : n \in {1, next, next + 1}}
        \cup {[name |-> <<next>>, pipeline_type |-> "bogus"],
              [name |-> <<next>>, pipeline_type |-> ""],
              [name |-> <<next>>],
              [name |-> <<>>, pipeline_type |-> "etl"],
              [pipeline_type |-> "etl"]}

InitQuota ==
    /\ now = 0
    /\ rules = InitialRules
    /\ alerts = <<>>
    /\ history = <<>>
    /\ response = NoResponse
    /\ call = NoCall
    /\ workers = NoWorkers
    /\ rule_id_seq = Cardinality(RuleIds)
    /\ \E tier \in SubscriptionTier :
        /\ organizations = [InitialOrganizations EXCEPT ![1].subscription_tier = tier]
        /\ pipelines = SeedPipelines(tier)

NextQuota ==
    \/ \E w \in Workers, i \in {1, 3}, data \in QuotaBodies :
            create_pipeline_check(w, i, data)
    \/ \E w \in Workers, ok \in BOOLEAN : create_pipeline_commit(w, ok)

SpecQuota == InitQuota /\ [][NextQuota]_vars

(* C30: an organization on the starter or professional tier never has more *)
(* pipelines than its tier's limit, whatever the interleaving of           *)
(* create_pipeline requests.                                               *)
C30_PipelineQuota ==
    \A o \in Organizations :
        organizations[o].subscription_tier \in {STARTER, PROFESSIONAL}
            => Len(OrganizationPipelines(o)) <= get_pipeline_limit(organizations[o])

====
